---- MODULE Spec2Model ----
(***************************************************************************)
(* A model of the schemalex DDL parser (parser.go): the token lookahead    *)
(* buffer of parseCtx and the recursive-descent grammar of Parser.Parse.   *)
(*                                                                         *)
(* One step of the model is what the parser does with one significant      *)
(* token: all the code that runs from the moment peek() delivers the token *)
(* until the parser has to ask the token source for another one.  Tokens   *)
(* are received from the lexer's channel one at a time; the part of the    *)
(* input not yet received is any continuation over the alphabet `vocab`    *)
(* that fits the input budget `fuel`.                                      *)
(***************************************************************************)
EXTENDS Integers, Sequences, FiniteSets, TLC

VARIABLES vocab, fuel, ctx, seen, pc, stmts, st, ret, lex

vars == <<vocab, fuel, ctx, seen, pc, stmts, st, ret, lex>>

(***************************************************************************)
(* Bounds of the inputs explored.                                          *)
(***************************************************************************)
MaxStmts == 2
MaxDefs == 1
MaxListDefs == 2
MaxColOpts == 2
MaxIdxCols == 2
MaxTblOpts == 2
MaxSpaces == 1

(***************************************************************************)
(* Tokens.  A token is its Type and its Value (Token is declared by the    *)
(* lexer).  A keyword's value is its spelling.                             *)
(***************************************************************************)
Tok(ty) == [Type |-> ty, Value |-> ty]
Ident(v) == [Type |-> "IDENT", Value |-> v]
Backtick(v) == [Type |-> "BACKTICK_IDENT", Value |-> v]
Number(v) == [Type |-> "NUMBER", Value |-> v]
SingleQuote(v) == [Type |-> "SINGLE_QUOTE_IDENT", Value |-> v]

\* a nil *Token (an unset slot of peekTokens)
NilTok == [Type |-> "nil", Value |-> ""]

eofToken == [Type |-> "EOF", Value |-> ""]

IsSpace(t) == t.Type \in {"SPACE", "COMMENT_IDENT"}

IsIdent(t) == t.Type \in {"IDENT", "BACKTICK_IDENT"}

Nil == [kind |-> "nil"]

NoErr == [msg |-> "", tok |-> NilTok]

(***************************************************************************)
(* The token lookahead buffer (parseCtx).  Slot i of the Go array is       *)
(* peekTokens[i + 1] here.  Peek(c, t) is the buffer after peek() when the *)
(* token the channel would deliver is t.                                   *)
(***************************************************************************)
\* Three fields are bookkeeping that parseCtx does not have: fetched is the
\* last token taken from the channel, consumed tells that the last operation
\* was an advance() that moved the cursor past a cached token, and strayRewind
\* that rewind() was once called after anything else.
newParseCtx ==
  [peekCount |-> -1, peekTokens |-> <<NilTok, NilTok, NilTok>>, lexsrc |-> "open",
   fetched |-> NilTok, consumed |-> FALSE, strayRewind |-> FALSE]

\* the tokens peek() may return in buffer state c
Delivered(c) ==
  IF c.peekCount >= 0 THEN {c.peekTokens[c.peekCount + 1]}
  ELSE IF c.lexsrc = "closed" THEN {eofToken}
  ELSE vocab \cup {eofToken}

\* a peek() that caches the end-of-input token of an exhausted source
PeekCachesEof(c, t) ==
  IF c.peekCount < 0
  THEN [c EXCEPT !.peekCount = c.peekCount + 1,
                 !.peekTokens[c.peekCount + 2] = IF c.lexsrc = "closed" THEN eofToken ELSE t,
                 !.lexsrc = IF t.Type = "EOF" THEN "closed" ELSE c.lexsrc,
                 !.fetched = IF c.lexsrc = "closed" THEN @ ELSE t,
                 !.consumed = FALSE]
  ELSE c

Peek(c, t) ==
  IF c.peekCount < 0
  THEN IF c.lexsrc = "closed"
       THEN [c EXCEPT !.consumed = FALSE]
       ELSE [c EXCEPT !.peekCount = c.peekCount + 1,
                      !.peekTokens[c.peekCount + 2] = t,
                      !.lexsrc = IF t.Type = "EOF" THEN "closed" ELSE "open",
                      !.fetched = t, !.consumed = FALSE]
  ELSE c

Advance(c) ==
  IF c.peekCount >= 0
  THEN [c EXCEPT !.peekCount = c.peekCount - 1, !.consumed = TRUE]
  ELSE [c EXCEPT !.consumed = FALSE]

\* a rewind() that moves the cursor back by two slots
RewindTwice(c) ==
  [c EXCEPT !.peekCount = IF c.peekCount < 1 THEN c.peekCount + 2 ELSE 2,
            !.consumed = FALSE]

\* a rewind() that leaves the cursor where it is
RewindNothing(c) == [c EXCEPT !.consumed = FALSE]

Rewind(c) ==
  IF c.peekCount < 2
  THEN [c EXCEPT !.peekCount = c.peekCount + 1, !.consumed = FALSE,
                 !.strayRewind = @ \/ ~c.consumed]
  ELSE [c EXCEPT !.consumed = FALSE, !.strayRewind = TRUE]

NextTok(c, t) == Advance(Peek(c, t))

\* the token peek() returns in a buffer state that needs no fetch
Buffered(c) == CHOOSE t \in Delivered(c) : TRUE

(***************************************************************************)
(* The inputs explored: each run draws its tokens from one vocabulary.     *)
(***************************************************************************)
Names == {"a", "b"}

Keywords(S) == {Tok(k) : k \in S}

\* the tokens every input explored may hold: one table with a list of definitions
VocabCore ==
  Keywords({"CREATE", "TABLE", "LPAREN", "RPAREN", "COMMA", "INT"}) \cup {Ident("a")}

\* inputs of several statements, of tables and databases with different names
VocabStatements ==
  (VocabCore \ Keywords({"COMMA"}))
  \cup Keywords({"DATABASE", "IF", "NOT", "EXISTS", "DROP", "SEMICOLON"})
  \cup {Ident(n) : n \in Names}

\* inputs of several statements with whitespace and comments between the tokens
VocabSpaces ==
  (VocabCore \ Keywords({"COMMA"}))
  \cup Keywords({"DATABASE", "TEMPORARY", "SEMICOLON", "SPACE", "COMMENT_IDENT"})
  \cup {Ident(n) : n \in Names}

\* inputs of one table whose columns have types and options
VocabColumn ==
  VocabCore
  \cup Keywords({"TEXT", "BLOB", "NOT", "NULL", "DEFAULT", "UNIQUE", "KEY", "PRIMARY"})
  \cup {Number("1")}

\* inputs of one table with indexes and foreign keys
VocabIndex ==
  VocabCore
  \cup Keywords({"CONSTRAINT", "FOREIGN", "KEY", "USING", "BTREE", "REFERENCES",
                 "MATCH", "FULL", "ON", "DELETE", "UPDATE", "CASCADE", "SET", "NULL"})

\* inputs of one table with table options
VocabOption ==
  VocabCore
  \cup Keywords({"ENGINE", "EQUAL", "DEFAULT", "CHARACTER", "SET"})

\* inputs of one table with a list of several columns and indexes
VocabList ==
  VocabCore \cup Keywords({"KEY", "CHECK"}) \cup {Ident(n) : n \in Names}

\* inputs of one table with full-text and spatial indexes
VocabFullText == VocabCore \cup Keywords({"FULLTEXT", "SPARTIAL"})

Vocabularies ==
  {VocabStatements, VocabSpaces, VocabColumn, VocabIndex, VocabOption, VocabList,
   VocabFullText}

(***************************************************************************)
(* The input budget: which construct a token opens at the parser's         *)
(* position, and whether the input explored still has room for it.         *)
(***************************************************************************)
DefStart ==
  {"IDENT", "BACKTICK_IDENT", "CONSTRAINT", "PRIMARY", "UNIQUE", "INDEX", "KEY",
   "FULLTEXT", "SPARTIAL", "FOREIGN"}

ColOptStart ==
  {"LPAREN", "UNSIGNED", "ZEROFILL", "BINARY", "NOT", "NULL", "DEFAULT",
   "AUTO_INCREMENT", "UNIQUE", "KEY", "PRIMARY", "COMMENT"}

TblOptStart ==
  {"ENGINE", "AUTO_INCREMENT", "AVG_ROW_LENGTH", "DEFAULT", "CHARACTER", "COLLATE",
   "CHECKSUM", "COMMENT", "CONNECTION", "DATA", "DELAY_KEY_WRITE", "INDEX",
   "INSERT_METHOD", "KEY_BLOCK_SIZE", "MAX_ROWS", "MIN_ROWS", "PACK_KEYS",
   "PASSWORD", "ROW_FORMAT", "STATS_AUTO_RECALC", "STATS_PERSISTENT",
   "STATS_SAMPLE_PAGES"}

Class(t) ==
  IF IsSpace(t) THEN "spaces"
  ELSE IF pc \in {"Parse", "parseCreateDatabase:eol"}
          /\ t.Type \in {"CREATE", "DROP", "SET", "USE"} THEN "stmts"
  ELSE IF pc = "parseCreateTableFields" /\ t.Type \in DefStart THEN "defs"
  ELSE IF pc = "parseColumnOption" /\ t.Type \in ColOptStart THEN "opts"
  ELSE IF pc = "parseColumnIndexColName:col" /\ IsIdent(t) THEN "idxcols"
  ELSE IF pc = "parseCreateTableOptions" /\ t.Type \in TblOptStart THEN "tblopts"
  ELSE "none"

Fresh == ctx.peekCount < 0 /\ ctx.lexsrc = "open"

Incoming ==
  IF Fresh
  THEN {t \in Delivered(ctx) : Class(t) = "none" \/ fuel[Class(t)] > 0}
  ELSE Delivered(ctx)

\* the definitions one table of the input may hold
DefBudget == IF vocab = VocabList THEN MaxListDefs ELSE MaxDefs

\* the budget of definitions, options, index columns and table options is per table
Refill(f, t) ==
  IF pc \in {"parseCreateTable:IF", "parseCreateTable:LPAREN"} /\ t.Type = "LPAREN"
  THEN [f EXCEPT !.defs = DefBudget, !.opts = MaxColOpts, !.idxcols = MaxIdxCols,
                 !.tblopts = MaxTblOpts]
  ELSE f

Burn(t) ==
  IF Fresh /\ Class(t) # "none" /\ fuel[Class(t)] > 0
  THEN [fuel EXCEPT ![Class(t)] = @ - 1]
  ELSE Refill(fuel, t)

(***************************************************************************)
(* What the input received so far contains: the names of its CREATE TABLE  *)
(* statements, in order, the number of its CREATE DATABASE statements, and *)
(* whether the name of a CREATE DATABASE statement was followed by a token *)
(* that is no terminator.  Read off the token stream alone, whitespace and *)
(* comments apart.  `appended` counts the tables Parse has appended.       *)
(***************************************************************************)
Seen0 == [lx |-> "", tables |-> <<>>, dbs |-> 0, unterminated |-> FALSE, appended |-> 0]

\* the token after the name of a CREATE DATABASE statement
AfterName(s, t) ==
  IF s.lx = "DATABASE:name" /\ t.Type \notin {"EOF", "SEMICOLON"}
  THEN [s EXCEPT !.unterminated = TRUE]
  ELSE s

Header(s, t) ==
  IF t.Type = "CREATE" THEN "CREATE"
  ELSE IF s.lx = "CREATE" /\ t.Type = "TABLE" THEN "TABLE"
  ELSE IF s.lx = "CREATE" /\ t.Type = "DATABASE" THEN "DATABASE"
  ELSE IF s.lx = "TABLE" /\ t.Type = "TEMPORARY" THEN "TABLE:TEMPORARY"
  ELSE IF s.lx \in {"TABLE", "TABLE:TEMPORARY"} /\ IsIdent(t) THEN "TABLE:name"
  ELSE IF s.lx = "DATABASE" /\ t.Type = "IF" THEN "DATABASE:IF"
  ELSE IF s.lx = "DATABASE:IF" /\ t.Type = "NOT" THEN "DATABASE:NOT"
  ELSE IF s.lx = "DATABASE:NOT" /\ t.Type = "EXISTS" THEN "DATABASE:EXISTS"
  ELSE IF s.lx \in {"DATABASE", "DATABASE:EXISTS"} /\ IsIdent(t) THEN "DATABASE:name"
  ELSE ""

Observe(s, t) ==
  IF IsSpace(t) THEN s
  ELSE LET lx == Header(s, t)
       IN [AfterName(s, t) EXCEPT
             !.lx = lx,
             !.tables = IF lx = "TABLE:name" THEN Append(@, t.Value) ELSE @,
             !.dbs = IF lx = "DATABASE" THEN @ + 1 ELSE @]

(***************************************************************************)
(* The parser's locals.                                                    *)
(***************************************************************************)
St0 ==
  [table |-> Nil, targetStmt |-> Nil, col |-> Nil, index |-> Nil, r |-> Nil,
   database |-> Nil, temporary |-> FALSE, notexists |-> FALSE,
   f |-> 0, pos |-> 0, i |-> 0, sym |-> "", tlen |-> "", tscale |-> "",
   idents |-> <<>>, strs |-> <<>>, after |-> "", iftok |-> NilTok,
   key |-> "", types |-> {}, eolRet |-> FALSE, lastCreate |-> "",
   plan |-> <<>>, cols |-> <<>>, container |-> "", set |-> "", ons |-> <<>>]

NoRet == [returned |-> FALSE, stmts |-> <<>>, err |-> NoErr]

\* Parse's `return stmts, nil`
ParseReturnOk(ss) == [returned |-> TRUE, stmts |-> ss, err |-> NoErr]

\* a Parse that returned the statements appended so far together with the error
ReturnPartial(ss, e) == [returned |-> TRUE, stmts |-> ss, err |-> e]

\* Parse's `return nil, pe` and `return nil, errors.Wrap(err, ...)`
ParseReturnErr(ss, e) == [returned |-> TRUE, stmts |-> <<>>, err |-> e]

Common(t) ==
  /\ fuel' = Burn(t)
  /\ seen' = IF Fresh THEN Observe(seen, t) ELSE seen
  /\ UNCHANGED <<vocab, lex>>

NoFuel ==
  [stmts |-> 0, defs |-> 0, opts |-> 0, idxcols |-> 0, tblopts |-> 0, spaces |-> 0]

\* Parse is left, by a return or by a panic: its locals are gone, and nothing more
\* is read from the input
Leave(t, l, c, r) ==
  /\ pc' = l
  /\ ctx' = c
  /\ ret' = r
  /\ stmts' = <<>>
  /\ st' = St0
  /\ fuel' = NoFuel
  /\ seen' = IF Fresh THEN Observe(seen, t) ELSE seen
  /\ UNCHANGED <<vocab, lex>>

\* reading the Type of a nil token is a nil pointer dereference
Panic(t, c) == Leave(t, "panic", c, ret)

Goto(t, l, c, s) ==
  IF t = NilTok THEN Panic(t, ctx)
  ELSE /\ pc' = l
       /\ ctx' = c
       /\ st' = s
       /\ UNCHANGED <<stmts, ret>>
       /\ Common(t)

\* a fatal error: it propagates through every caller to Parse, which returns it
Fail(t, c, msg, tok) ==
  IF t = NilTok THEN Panic(t, ctx)
  ELSE Leave(t, "done", c, ParseReturnErr(stmts, [msg |-> msg, tok |-> tok]))

\* the significant tokens the parser may be handed now
Significant == {t \in Incoming : ~IsSpace(t)}

(***************************************************************************)
(* skipWhiteSpaces: every read of the grammar is preceded by it.           *)
(***************************************************************************)
Reading == pc \notin {"done", "panic", "S1:test"}

skipWhiteSpaces ==
  /\ Reading
  /\ \E t \in Incoming :
       /\ IsSpace(t)
       /\ ctx' = Advance(Peek(ctx, t))
       /\ UNCHANGED <<pc, stmts, st, ret>>
       /\ Common(t)

(***************************************************************************)
(* Parse: the top-level loop.                                              *)
(***************************************************************************)
ParseBody(t) ==
  CASE t.Type = "CREATE" ->
         Goto(t, "parseCreate", NextTok(ctx, t), st)
    [] t.Type \in {"DROP", "SET", "USE"} ->
         Goto(t, "S1", Peek(ctx, t), st)
    [] t.Type = "EOF" ->
         Leave(t, "done", Advance(Peek(ctx, t)), ParseReturnOk(stmts))
    [] OTHER ->
         Fail(t, Peek(ctx, t), "expected CREATE, COMMENT_IDENT or EOF", t)

Parse ==
  /\ pc \in {"Parse"}
  /\ \E t \in Significant : ParseBody(t)

\* p.eol(ctx): the result and the buffer after it
eol(c, t) ==
  IF t.Type \in {"EOF", "SEMICOLON"}
  THEN [ok |-> TRUE, ctx |-> Advance(Peek(c, t))]
  ELSE [ok |-> FALSE, ctx |-> Peek(c, t)]

\* the loop S1 of DROP, SET and USE: one call of p.eol
S1Body(t) ==
  Goto(t, "S1:test", eol(ctx, t).ctx, [st EXCEPT !.eolRet = eol(ctx, t).ok])

S1_eol ==
  /\ pc \in {"S1"}
  /\ \E t \in Significant : S1Body(t)

\* the loop S1: `if p.eol(ctx) { break S1 }`
S1_test ==
  /\ pc = "S1:test"
  /\ pc' = IF st.eolRet THEN "Parse" ELSE "S1"
  /\ st' = [st EXCEPT !.eolRet = FALSE]
  /\ UNCHANGED <<vocab, fuel, ctx, seen, stmts, ret, lex>>

(***************************************************************************)
(* parseCreate, parseCreateDatabase                                        *)
(***************************************************************************)
parseCreateBody(t) ==
  CASE t.Type = "DATABASE" ->
         Goto(t, "parseCreateDatabase:if", NextTok(ctx, t), st)
    [] t.Type = "TABLE" ->
         Goto(t, "parseCreateTable:TEMPORARY", NextTok(ctx, t), st)
    [] OTHER ->
         Fail(t, Peek(ctx, t), "expected DATABASE or TABLE", t)

parseCreate ==
  /\ pc \in {"parseCreate"}
  /\ \E t \in Significant : parseCreateBody(t)

NewDatabase(name, notexists) == [kind |-> "database", name |-> name, ifNotExists |-> notexists]

\* the name of the database: `switch t := ctx.next()`
DatabaseName(t) ==
  IF IsIdent(t)
  THEN Goto(t, "parseCreateDatabase:eol", NextTok(ctx, t),
            [st EXCEPT !.database = NewDatabase(t.Value, st.notexists)])
  ELSE Fail(t, NextTok(ctx, t), "expected IDENT, BACKTICK_IDENT or IF", t)

\* a Parse that appended the Database of parseCreateDatabase as it does a Table
AppendDatabase(t, c) ==
  /\ pc' = "Parse"
  /\ ctx' = c
  /\ stmts' = Append(stmts, st.database)
  /\ st' = [St0 EXCEPT !.lastCreate = "stmt"]
  /\ UNCHANGED ret
  /\ Common(t)

\* parseCreate returns errors.Ignorable(nil) and Parse continues its loop
IgnorableContinue(t, c) ==
  Goto(t, "Parse", c, [St0 EXCEPT !.lastCreate = "ignorable"])

parseCreateDatabaseBody(t) ==
  CASE pc = "parseCreateDatabase:if" ->
         IF t.Type = "IF"
         THEN Goto(t, "parseIdents", NextTok(ctx, t),
                   [st EXCEPT !.idents = <<"NOT", "EXISTS">>, !.strs = <<>>,
                              !.after = "parseCreateDatabase", !.iftok = t])
         ELSE DatabaseName(t)
    [] pc = "parseCreateDatabase:name" -> DatabaseName(t)
    [] pc = "parseCreateDatabase:eol" -> IgnorableContinue(t, eol(ctx, t).ctx)

parseCreateDatabase ==
  /\ pc \in {"parseCreateDatabase:if", "parseCreateDatabase:name",
             "parseCreateDatabase:eol"}
  /\ \E t \in Significant : parseCreateDatabaseBody(t)

(***************************************************************************)
(* The statement model (package statement): what the parser builds.        *)
(***************************************************************************)
NewTable(name) ==
  [kind |-> "table", name |-> name, temporary |-> FALSE, ifNotExists |-> FALSE,
   columns |-> <<>>, indexes |-> <<>>, options |-> <<>>]

NewTableColumn(name) ==
  [kind |-> "column", name |-> name, type |-> "", length |-> Nil,
   unsigned |-> FALSE, zerofill |-> FALSE, binary |-> FALSE, nullstate |-> "Unknown",
   hasDefault |-> FALSE, default |-> "", autoIncrement |-> FALSE,
   key |-> FALSE, unique |-> FALSE, primary |-> FALSE, comment |-> ""]

NewLength(v) == [kind |-> "length", value |-> v, hasDecimal |-> FALSE, decimal |-> ""]

NewLengthDecimal(v, d) == [kind |-> "length", value |-> v, hasDecimal |-> TRUE, decimal |-> d]

NewIndex(k) ==
  [kind |-> "index", indexKind |-> k, symbol |-> "", name |-> "", type |-> "None",
   columns |-> <<>>, reference |-> Nil]

NewReference ==
  [kind |-> "reference", tableName |-> "", columns |-> <<>>, match |-> "None",
   onDelete |-> "None", onUpdate |-> "None"]

NewTableOption(key, value) == [key |-> key, value |-> value]

(***************************************************************************)
(* parseCreateTable                                                        *)
(***************************************************************************)
\* the name of the table: `switch t := ctx.next()`
TableName(t) ==
  IF IsIdent(t)
  THEN Goto(t, "parseCreateTable:IF", NextTok(ctx, t),
            [st EXCEPT !.table = [NewTable(t.Value) EXCEPT !.temporary = st.temporary]])
  ELSE Fail(t, NextTok(ctx, t), "expected IDENT or BACKTICK_IDENT", t)

\* `if t := ctx.next(); t.Type != LPAREN`
TableLparen(t) ==
  IF t.Type = "LPAREN"
  THEN Goto(t, "parseCreateTableFields", NextTok(ctx, t), st)
  ELSE Fail(t, NextTok(ctx, t), "expected RPAREN", t)

parseCreateTableBody(t) ==
  CASE pc = "parseCreateTable:TEMPORARY" ->
         IF t.Type = "TEMPORARY"
         THEN Goto(t, "parseCreateTable:name", NextTok(ctx, t),
                   [st EXCEPT !.temporary = TRUE])
         ELSE TableName(t)
    [] pc = "parseCreateTable:name" -> TableName(t)
    [] pc = "parseCreateTable:IF" ->
         IF t.Type = "IF"
         THEN Goto(t, "parseIdents", NextTok(ctx, t),
                   [st EXCEPT !.idents = <<"NOT", "EXISTS">>, !.strs = <<>>,
                              !.after = "parseCreateTable", !.iftok = t])
         ELSE TableLparen(t)
    [] pc = "parseCreateTable:LPAREN" -> TableLparen(t)

parseCreateTable ==
  /\ pc \in {"parseCreateTable:TEMPORARY", "parseCreateTable:name",
             "parseCreateTable:IF", "parseCreateTable:LPAREN"}
  /\ \E t \in Significant : parseCreateTableBody(t)

(***************************************************************************)
(* parseCreateTableFields: the list of column and index definitions        *)
(***************************************************************************)
\* an appendStmt that puts the definition in front of those already appended
appendStmtInFront(table, target) ==
  IF target.kind = "index"
  THEN [table EXCEPT !.indexes = <<target>> \o @]
  ELSE [table EXCEPT !.columns = <<target>> \o @]

\* the closure appendStmt, for a targetStmt that is a column or an index
appendStmt(table, target) ==
  IF target.kind = "index"
  THEN [table EXCEPT !.indexes = Append(@, target)]
  ELSE [table EXCEPT !.columns = Append(@, target)]

\* what each kind of index definition parses, in order
PlanPrimaryKey ==
  <<"parseColumnIndexPrimaryKey", "parseColumnIndexType", "parseColumnIndexColName">>

PlanUniqueKey ==
  <<"parseColumnIndexUniqueKey", "parseColumnIndexName", "parseColumnIndexType",
    "parseColumnIndexColName">>

PlanKey == <<"parseColumnIndexName", "parseColumnIndexType", "parseColumnIndexColName">>

PlanFullTextKey == <<"parseColumnIndexName", "parseColumnIndexColName">>

PlanForeignKey ==
  <<"parseColumnIndexForeignKey", "parseColumnIndexName", "parseColumnIndexColName",
    "parseColumnIndexForeignKey:REFERENCES">>

\* enter the index grammar of kind k
StartIndex(t, c, k, plan) ==
  Goto(t, Head(plan), c,
       [st EXCEPT !.index = NewIndex(k), !.plan = Tail(plan), !.container = "index",
                  !.cols = <<>>])

\* the index built, with the symbol of its CONSTRAINT
Built(s) == IF s.sym # "" THEN [s.index EXCEPT !.symbol = s.sym] ELSE s.index

\* one function of the index grammar returns: on to the next one, or, at the end,
\* back to setStmt, which makes the index the pending definition
Return(t, c, s) ==
  IF s.plan = <<>>
  THEN Goto(t, "parseCreateTableFields", c,
            [s EXCEPT !.targetStmt = Built(s), !.index = Nil, !.r = Nil, !.sym = "",
                      !.container = "", !.cols = <<>>, !.i = 0, !.set = ""])
  ELSE Goto(t, Head(s.plan), c, [s EXCEPT !.plan = Tail(@)])

\* the definition a token opens, once setStmt has found no pending definition
StartDef(t, c) ==
  CASE t.Type = "CONSTRAINT" -> Goto(t, "CONSTRAINT:symbol", c, st)
    [] t.Type = "PRIMARY" -> StartIndex(t, c, "PrimaryKey", PlanPrimaryKey)
    [] t.Type = "UNIQUE" -> StartIndex(t, c, "Unique", PlanUniqueKey)
    [] t.Type \in {"INDEX", "KEY"} -> StartIndex(t, c, "Normal", PlanKey)
    [] t.Type = "FULLTEXT" -> StartIndex(t, c, "FullText", PlanFullTextKey)
    [] t.Type = "SPARTIAL" -> StartIndex(t, c, "Spatial", PlanFullTextKey)
    [] t.Type = "FOREIGN" -> StartIndex(t, c, "ForeignKey", PlanForeignKey)
    [] OTHER ->
         Goto(t, "parseTableColumnSpec", c, [st EXCEPT !.col = NewTableColumn(t.Value)])

\* a setStmt that lets a new definition replace the pending one
setStmtReplaces(t, c) == StartDef(t, c)

\* the closure setStmt
setStmt(t, c) ==
  IF st.targetStmt # Nil
  THEN Fail(t, c, "previous column or index definition not terminated", t)
  ELSE StartDef(t, c)

\* the `)` of the list: appendStmt, which panics on a targetStmt that is nil
FieldsRparen(t, c) ==
  IF st.targetStmt = Nil
  THEN Panic(t, c)
  ELSE Goto(t, "parseCreateTableOptions", c,
            [st EXCEPT !.table = appendStmt(st.table, st.targetStmt),
                       !.targetStmt = Nil])

FieldsComma(t, c) ==
  IF st.targetStmt = Nil
  THEN Fail(t, c, "unexpected COMMA", t)
  ELSE Goto(t, "parseCreateTableFields", c,
            [st EXCEPT !.table = appendStmt(st.table, st.targetStmt),
                       !.targetStmt = Nil])

\* a list of definitions that the end of the input closed as `)` does
parseCreateTableFieldsEofCloses(t) ==
  LET c == NextTok(ctx, t)
  IN CASE t.Type \in {"RPAREN", "EOF"} -> FieldsRparen(t, c)
       [] t.Type = "COMMA" -> FieldsComma(t, c)
       [] t.Type \in DefStart -> setStmt(t, c)
       [] t.Type = "CHECK" -> Fail(t, c, "not support CHECK", t)
       [] OTHER -> Fail(t, c, "unexpected create table fields", t)

\* a list in which CHECK ends a pending definition as `,` does
parseCreateTableFieldsCheckEnds(t) ==
  LET c == NextTok(ctx, t)
  IN CASE t.Type = "RPAREN" -> FieldsRparen(t, c)
       [] t.Type = "COMMA" \/ (t.Type = "CHECK" /\ st.targetStmt # Nil) ->
            FieldsComma(t, c)
       [] t.Type \in DefStart -> setStmt(t, c)
       [] t.Type = "CHECK" -> Fail(t, c, "not support CHECK", t)
       [] OTHER -> Fail(t, c, "unexpected create table fields", t)

parseCreateTableFieldsBody(t) ==
  LET c == NextTok(ctx, t)
  IN CASE t.Type = "RPAREN" -> FieldsRparen(t, c)
       [] t.Type = "COMMA" -> FieldsComma(t, c)
       [] t.Type \in DefStart -> setStmt(t, c)
       [] t.Type = "CHECK" -> Fail(t, c, "not support CHECK", t)
       [] OTHER -> Fail(t, c, "unexpected create table fields", t)

parseCreateTableFields ==
  /\ pc = "parseCreateTableFields"
  /\ \E t \in Significant : parseCreateTableFieldsBody(t)

\* `CONSTRAINT [symbol] PRIMARY|UNIQUE|FOREIGN`
ConstraintKind(t) ==
  LET c == NextTok(ctx, t)
  IN CASE t.Type = "PRIMARY" -> StartIndex(t, c, "PrimaryKey", PlanPrimaryKey)
       [] t.Type = "UNIQUE" -> StartIndex(t, c, "Unique", PlanUniqueKey)
       [] t.Type = "FOREIGN" -> StartIndex(t, c, "ForeignKey", PlanForeignKey)
       [] OTHER -> Fail(t, c, "not supported", t)

parseConstraintBody(t) ==
  IF pc = "CONSTRAINT:symbol" /\ IsIdent(t)
  THEN Goto(t, "CONSTRAINT:kind", NextTok(ctx, t), [st EXCEPT !.sym = t.Value])
  ELSE ConstraintKind(t)

parseConstraint ==
  /\ pc \in {"CONSTRAINT:symbol", "CONSTRAINT:kind"}
  /\ \E t \in Significant : parseConstraintBody(t)

(***************************************************************************)
(* Column types and the options each accepts.  The colopt constants are    *)
(* declared beside the parser: one bit per option, in the order in which   *)
(* options may follow each other.                                          *)
(***************************************************************************)
coloptSize == 1
coloptDecimalSize == 2
coloptDecimalOptionalSize == 4
coloptUnsigned == 8
coloptZerofill == 16
coloptBinary == 32
coloptNull == 64
coloptDefault == 128
coloptAutoIncrement == 256
coloptKey == 512
coloptComment == 1024

ColoptBits == 11

Pow2(k) == IF k = 0 THEN 1 ELSE IF k = 1 THEN 2 ELSE IF k = 2 THEN 4
  ELSE IF k = 3 THEN 8 ELSE IF k = 4 THEN 16 ELSE IF k = 5 THEN 32
  ELSE IF k = 6 THEN 64 ELSE IF k = 7 THEN 128 ELSE IF k = 8 THEN 256
  ELSE IF k = 9 THEN 512 ELSE 1024

HasBit(x, k) == (x \div Pow2(k)) % 2 = 1

RECURSIVE OrFrom(_, _, _)
OrFrom(a, b, k) ==
  IF k = ColoptBits THEN 0
  ELSE (IF HasBit(a, k) \/ HasBit(b, k) THEN Pow2(k) ELSE 0) + OrFrom(a, b, k + 1)

\* Go's a | b on the colopt bits
BitOr(a, b) == OrFrom(a, b, 0)

coloptFlagNone == 0
coloptFlagDigit == BitOr(coloptSize, BitOr(coloptUnsigned, coloptZerofill))
coloptFlagDecimal == BitOr(coloptDecimalSize, BitOr(coloptUnsigned, coloptZerofill))
coloptFlagDecimalOptional ==
  BitOr(coloptDecimalOptionalSize, BitOr(coloptUnsigned, coloptZerofill))
coloptFlagTime == coloptSize
coloptFlagChar == BitOr(coloptSize, coloptBinary)
coloptFlagBinary == coloptSize

BlobTypes == {"TINYBLOB", "BLOB", "MEDIUMBLOB", "LONGBLOB"}

TextTypes == {"TINYTEXT", "TEXT", "MEDIUMTEXT", "LONGTEXT"}

ColumnTypes ==
  {"BIT", "TINYINT", "SMALLINT", "MEDIUMINT", "INT", "INTEGER", "BIGINT", "REAL",
   "DOUBLE", "FLOAT", "DECIMAL", "NUMERIC", "DATE", "TIME", "TIMESTAMP", "DATETIME",
   "YEAR", "CHAR", "VARCHAR", "BINARY", "VARBINARY"} \cup BlobTypes \cup TextTypes

\* a parseTableColumnSpec that gave the BLOB family the colopt of BINARY
ColoptBlobAsBinary(ty) ==
  CASE ty = "BIT" -> coloptSize
    [] ty \in {"TINYINT", "SMALLINT", "MEDIUMINT", "INT", "INTEGER", "BIGINT"} ->
         coloptFlagDigit
    [] ty \in {"REAL", "DOUBLE", "FLOAT"} -> coloptFlagDecimal
    [] ty \in {"DECIMAL", "NUMERIC"} -> coloptFlagDecimalOptional
    [] ty \in {"DATE", "YEAR"} -> coloptFlagNone
    [] ty \in {"TIME", "TIMESTAMP", "DATETIME"} -> coloptFlagTime
    [] ty \in {"CHAR", "VARCHAR"} -> coloptFlagChar
    [] ty \in {"BINARY", "VARBINARY"} \cup BlobTypes -> coloptFlagBinary
    [] ty \in TextTypes -> coloptFlagChar

\* the colopt that parseTableColumnSpec gives a type keyword
Colopt(ty) ==
  CASE ty = "BIT" -> coloptSize
    [] ty \in {"TINYINT", "SMALLINT", "MEDIUMINT", "INT", "INTEGER", "BIGINT"} ->
         coloptFlagDigit
    [] ty \in {"REAL", "DOUBLE", "FLOAT"} -> coloptFlagDecimal
    [] ty \in {"DECIMAL", "NUMERIC"} -> coloptFlagDecimalOptional
    [] ty \in {"DATE", "YEAR"} -> coloptFlagNone
    [] ty \in {"TIME", "TIMESTAMP", "DATETIME"} -> coloptFlagTime
    [] ty \in {"CHAR", "VARCHAR"} -> coloptFlagChar
    [] ty \in {"BINARY", "VARBINARY"} -> coloptFlagBinary
    [] ty \in BlobTypes -> coloptFlagNone
    [] ty \in TextTypes -> coloptFlagChar

\* the options every column accepts, whatever its type
ColoptAlways ==
  BitOr(coloptNull, BitOr(coloptDefault,
    BitOr(coloptAutoIncrement, BitOr(coloptKey, coloptComment))))

parseTableColumnSpecBody(t) ==
  IF t.Type \in ColumnTypes
  THEN Goto(t, "parseColumnOption", NextTok(ctx, t),
            [st EXCEPT !.col.type = t.Type,
                       !.f = BitOr(Colopt(t.Type), ColoptAlways), !.pos = 0])
  ELSE Fail(t, NextTok(ctx, t), "not supported type", t)

parseTableColumnSpec ==
  /\ pc = "parseTableColumnSpec"
  /\ \E t \in Significant : parseTableColumnSpecBody(t)

(***************************************************************************)
(* parseColumnOption                                                       *)
(***************************************************************************)
\* a check that looked at the flags of the type only
checkFlags(f, pos, _f) == BitOr(f, _f) = f

\* the closure check: whether option _f may come now
check(f, pos, _f) ==
  IF pos > _f THEN FALSE
  ELSE IF BitOr(f, _f) # f THEN FALSE
  ELSE TRUE

\* an option that is a single keyword: check its rank, then set it
Flag(t, _f, msg, s) ==
  IF ~check(st.f, st.pos, _f)
  THEN Fail(t, NextTok(ctx, t), msg, t)
  ELSE Goto(t, "parseColumnOption", NextTok(ctx, t), [s EXCEPT !.pos = _f])

\* an option whose keyword is followed by more tokens, read at position l
Lead(t, _f, msg, l) ==
  IF ~check(st.f, st.pos, _f)
  THEN Fail(t, NextTok(ctx, t), msg, t)
  ELSE Goto(t, l, NextTok(ctx, t), [st EXCEPT !.pos = _f])

CantApplySize == "cant apply coloptSize, coloptDecimalSize, coloptDecimalOptionalSize"

\* `(`: a size, a precision and scale, or a precision with an optional scale
ColumnLparen(t) ==
  LET c == NextTok(ctx, t)
  IN IF check(st.f, st.pos, coloptSize)
     THEN Goto(t, "parseColumnOption:size:NUMBER", c, [st EXCEPT !.pos = coloptSize])
     ELSE IF check(st.f, st.pos, coloptDecimalSize)
     THEN Goto(t, "parseIdents", c,
               [st EXCEPT !.pos = coloptDecimalSize,
                          !.idents = <<"NUMBER", "COMMA", "NUMBER", "RPAREN">>,
                          !.strs = <<>>, !.after = "parseColumnOption"])
     ELSE IF check(st.f, st.pos, coloptDecimalOptionalSize)
     THEN Goto(t, "parseColumnOption:decimal:M", c,
               [st EXCEPT !.pos = coloptDecimalOptionalSize])
     ELSE Fail(t, c, CantApplySize, t)

\* `,` or `)`: rewind, return the column to setStmt, which makes it the pending
\* definition
ColumnEnd(t) ==
  Goto(t, "parseCreateTableFields", Rewind(NextTok(ctx, t)),
       [st EXCEPT !.targetStmt = st.col, !.col = Nil, !.f = 0, !.pos = 0,
                  !.tlen = "", !.tscale = ""])

\* the options that are, or begin with, a keyword
KeywordOptions ==
  {"UNSIGNED", "ZEROFILL", "BINARY", "NOT", "NULL", "DEFAULT", "AUTO_INCREMENT",
   "UNIQUE", "KEY", "PRIMARY", "COMMENT"}

\* the colopt that parseColumnOption checks for each of them
OptionRank(ty) ==
  CASE ty = "UNSIGNED" -> coloptUnsigned
    [] ty = "ZEROFILL" -> coloptZerofill
    [] ty = "BINARY" -> coloptBinary
    [] ty \in {"NOT", "NULL"} -> coloptNull
    [] ty = "DEFAULT" -> coloptDefault
    [] ty = "AUTO_INCREMENT" -> coloptAutoIncrement
    [] ty \in {"UNIQUE", "KEY", "PRIMARY"} -> coloptKey
    [] ty = "COMMENT" -> coloptComment

\* the error of an option that check refuses
CantApply(ty) ==
  CASE ty = "NOT" -> "cant apply NOT NULL"
    [] ty = "UNIQUE" -> "cant apply UNIQUE KEY"
    [] ty = "PRIMARY" -> "cant apply PRIMARY KEY"
    [] OTHER -> "cant apply " \o ty

\* what an accepted option that is one keyword sets
SetFlag(s, ty) ==
  CASE ty = "UNSIGNED" -> [s EXCEPT !.col.unsigned = TRUE]
    [] ty = "ZEROFILL" -> [s EXCEPT !.col.zerofill = TRUE]
    [] ty = "BINARY" -> [s EXCEPT !.col.binary = TRUE]
    [] ty = "NULL" -> [s EXCEPT !.col.nullstate = "Null"]
    [] ty = "AUTO_INCREMENT" -> [s EXCEPT !.col.autoIncrement = TRUE]
    [] ty = "KEY" -> [s EXCEPT !.col.key = TRUE]

ColumnOptionLoop(t) ==
  CASE t.Type = "LPAREN" -> ColumnLparen(t)
    [] t.Type \in {"UNSIGNED", "ZEROFILL", "BINARY", "NULL", "AUTO_INCREMENT", "KEY"} ->
         Flag(t, OptionRank(t.Type), CantApply(t.Type), SetFlag(st, t.Type))
    [] t.Type \in {"NOT", "DEFAULT", "UNIQUE", "PRIMARY", "COMMENT"} ->
         Lead(t, OptionRank(t.Type), CantApply(t.Type), "parseColumnOption:" \o t.Type)
    [] t.Type \in {"COMMA", "RPAREN"} -> ColumnEnd(t)
    [] OTHER -> Fail(t, NextTok(ctx, t), "unexpected column options", t)

\* the token that must follow: anything else is the error msg
Expect(t, ok, l, s, msg) ==
  IF ok THEN Goto(t, l, NextTok(ctx, t), s) ELSE Fail(t, NextTok(ctx, t), msg, t)

DefaultValues ==
  {"IDENT", "SINGLE_QUOTE_IDENT", "DOUBLE_QUOTE_IDENT", "NUMBER", "CURRENT_TIMESTAMP",
   "NULL"}

parseColumnOptionBody(t) ==
  CASE pc = "parseColumnOption" -> ColumnOptionLoop(t)
    [] pc = "parseColumnOption:size:NUMBER" ->
         Expect(t, t.Type = "NUMBER", "parseColumnOption:size:RPAREN",
                [st EXCEPT !.tlen = t.Value], "expected NUMBER (column size)")
    [] pc = "parseColumnOption:size:RPAREN" ->
         Expect(t, t.Type = "RPAREN", "parseColumnOption",
                [st EXCEPT !.col.length = NewLength(st.tlen), !.tlen = ""],
                "expected RPAREN (column size)")
    [] pc = "parseColumnOption:decimal:M" ->
         Expect(t, t.Type = "NUMBER", "parseColumnOption:decimal:sep",
                [st EXCEPT !.tlen = t.Value], "expected NUMBER (decimal size M)")
    [] pc = "parseColumnOption:decimal:sep" ->
         IF t.Type = "RPAREN"
         THEN Goto(t, "parseColumnOption", NextTok(ctx, t),
                   [st EXCEPT !.col.length = NewLength(st.tlen), !.tlen = ""])
         ELSE Expect(t, t.Type = "COMMA", "parseColumnOption:decimal:D", st,
                     "expected COMMA (decimal size)")
    [] pc = "parseColumnOption:decimal:D" ->
         Expect(t, t.Type = "NUMBER", "parseColumnOption:decimal:RPAREN",
                [st EXCEPT !.tscale = t.Value], "expected NUMBER (decimal size D)")
    [] pc = "parseColumnOption:decimal:RPAREN" ->
         Expect(t, t.Type = "RPAREN", "parseColumnOption",
                [st EXCEPT !.col.length = NewLengthDecimal(st.tlen, st.tscale),
                           !.tlen = "", !.tscale = ""],
                "expected RPARENT (decimal size)")
    [] pc = "parseColumnOption:NOT" ->
         Expect(t, t.Type = "NULL", "parseColumnOption",
                [st EXCEPT !.col.nullstate = "NotNull"], "should NULL")
    [] pc = "parseColumnOption:DEFAULT" ->
         Expect(t, t.Type \in DefaultValues, "parseColumnOption",
                [st EXCEPT !.col.hasDefault = TRUE, !.col.default = t.Value],
                "should IDENT, SINGLE_QUOTE_IDENT, DOUBLE_QUOTE_IDENT, NUMBER, CURRENT_TIMESTAMP, NULL")
    [] pc = "parseColumnOption:UNIQUE" ->
         \* `if t := ctx.next(); t.Type == KEY { ctx.advance(); col.SetUnique(true) }`
         IF t.Type = "KEY"
         THEN Goto(t, "parseColumnOption", Advance(NextTok(ctx, t)),
                   [st EXCEPT !.col.unique = TRUE])
         ELSE Goto(t, "parseColumnOption", NextTok(ctx, t), st)
    [] pc = "parseColumnOption:PRIMARY" ->
         \* `if t := ctx.peek(); t.Type == KEY { ctx.advance(); col.SetPrimary(true) }`
         IF t.Type = "KEY"
         THEN Goto(t, "parseColumnOption", Advance(Peek(ctx, t)),
                   [st EXCEPT !.col.primary = TRUE])
         ELSE Goto(t, "parseColumnOption", Peek(ctx, t), st)
    [] pc = "parseColumnOption:COMMENT" ->
         Expect(t, t.Type = "SINGLE_QUOTE_IDENT", "parseColumnOption",
                [st EXCEPT !.col.comment = t.Value], "should SINGLE_QUOTE_IDENT")

parseColumnOption ==
  /\ pc \in {"parseColumnOption", "parseColumnOption:size:NUMBER",
             "parseColumnOption:size:RPAREN", "parseColumnOption:decimal:M",
             "parseColumnOption:decimal:sep", "parseColumnOption:decimal:D",
             "parseColumnOption:decimal:RPAREN", "parseColumnOption:NOT",
             "parseColumnOption:DEFAULT", "parseColumnOption:UNIQUE",
             "parseColumnOption:PRIMARY", "parseColumnOption:COMMENT"}
  /\ \E t \in Significant : parseColumnOptionBody(t)

(***************************************************************************)
(* The index grammar                                                       *)
(***************************************************************************)
\* `if t := ctx.next(); t.Type != KEY` of PRIMARY KEY and of FOREIGN KEY
ShouldKey(t) ==
  IF t.Type = "KEY"
  THEN Return(t, NextTok(ctx, t), st)
  ELSE Fail(t, NextTok(ctx, t), "should KEY", t)

parseColumnIndexPrimaryKey ==
  /\ pc = "parseColumnIndexPrimaryKey"
  /\ \E t \in Significant : ShouldKey(t)

parseColumnIndexUniqueKeyBody(t) ==
  IF t.Type \in {"KEY", "INDEX"}
  THEN Return(t, Advance(Peek(ctx, t)), st)
  ELSE Return(t, Peek(ctx, t), st)

parseColumnIndexUniqueKey ==
  /\ pc = "parseColumnIndexUniqueKey"
  /\ \E t \in Significant : parseColumnIndexUniqueKeyBody(t)

parseColumnIndexNameBody(t) ==
  IF IsIdent(t)
  THEN Return(t, Advance(Peek(ctx, t)), [st EXCEPT !.index.name = t.Value])
  ELSE Return(t, Peek(ctx, t), st)

parseColumnIndexName ==
  /\ pc = "parseColumnIndexName"
  /\ \E t \in Significant : parseColumnIndexNameBody(t)

parseColumnIndexTypeBody(t) ==
  CASE pc = "parseColumnIndexType" ->
         IF t.Type = "USING"
         THEN Goto(t, "parseColumnIndexTypeUsing", NextTok(ctx, t), st)
         ELSE Return(t, Peek(ctx, t), [st EXCEPT !.index.type = "None"])
    [] pc = "parseColumnIndexTypeUsing" ->
         CASE t.Type = "BTREE" ->
                Return(t, NextTok(ctx, t), [st EXCEPT !.index.type = "Btree"])
           [] t.Type = "HASH" ->
                Return(t, NextTok(ctx, t), [st EXCEPT !.index.type = "Hash"])
           [] OTHER -> Fail(t, NextTok(ctx, t), "should BTREE or HASH", t)

parseColumnIndexType ==
  /\ pc \in {"parseColumnIndexType", "parseColumnIndexTypeUsing"}
  /\ \E t \in Significant : parseColumnIndexTypeBody(t)

\* container.AddColumns(cols...), the container being the index or the reference
AddColumns(s) ==
  IF s.container = "r"
  THEN [s EXCEPT !.r.columns = @ \o s.cols, !.cols = <<>>]
  ELSE [s EXCEPT !.index.columns = @ \o s.cols, !.cols = <<>>]

\* a column list that could be closed before any name
parseColumnIndexColNameAcceptsEmpty(t) ==
  LET c == NextTok(ctx, t)
  IN CASE pc = "parseColumnIndexColName" ->
            IF t.Type = "LPAREN"
            THEN Goto(t, "parseColumnIndexColName:col", c, [st EXCEPT !.cols = <<>>])
            ELSE Fail(t, c, "should (", t)
       [] pc = "parseColumnIndexColName:col" ->
            IF IsIdent(t)
            THEN Goto(t, "parseColumnIndexColName:sep", c,
                      [st EXCEPT !.cols = Append(@, t.Value)])
            ELSE IF t.Type = "RPAREN" /\ st.cols = <<>>
            THEN Return(t, c, AddColumns(st))
            ELSE Fail(t, c, "should IDENT or BACKTICK_IDENT", t)
       [] pc = "parseColumnIndexColName:sep" ->
            CASE t.Type = "COMMA" -> Goto(t, "parseColumnIndexColName:col", c, st)
              [] t.Type = "RPAREN" -> Return(t, c, AddColumns(st))
              [] OTHER -> Fail(t, c, "should , or )", t)

parseColumnIndexColNameBody(t) ==
  LET c == NextTok(ctx, t)
  IN CASE pc = "parseColumnIndexColName" ->
            IF t.Type = "LPAREN"
            THEN Goto(t, "parseColumnIndexColName:col", c, [st EXCEPT !.cols = <<>>])
            ELSE Fail(t, c, "should (", t)
       [] pc = "parseColumnIndexColName:col" ->
            IF IsIdent(t)
            THEN Goto(t, "parseColumnIndexColName:sep", c,
                      [st EXCEPT !.cols = Append(@, t.Value)])
            ELSE Fail(t, c, "should IDENT or BACKTICK_IDENT", t)
       [] pc = "parseColumnIndexColName:sep" ->
            CASE t.Type = "COMMA" -> Goto(t, "parseColumnIndexColName:col", c, st)
              [] t.Type = "RPAREN" -> Return(t, c, AddColumns(st))
              [] OTHER -> Fail(t, c, "should , or )", t)

parseColumnIndexColName ==
  /\ pc \in {"parseColumnIndexColName", "parseColumnIndexColName:col",
             "parseColumnIndexColName:sep"}
  /\ \E t \in Significant : parseColumnIndexColNameBody(t)

parseColumnIndexForeignKeyBody(t) ==
  CASE pc = "parseColumnIndexForeignKey" -> ShouldKey(t)
    [] pc = "parseColumnIndexForeignKey:REFERENCES" ->
         IF t.Type = "REFERENCES"
         THEN Goto(t, "parseColumnReference:table", NextTok(ctx, t),
                   [st EXCEPT !.r = NewReference, !.ons = <<>>, !.i = 0])
         ELSE Return(t, Peek(ctx, t), st)

parseColumnIndexForeignKey ==
  /\ pc \in {"parseColumnIndexForeignKey", "parseColumnIndexForeignKey:REFERENCES"}
  /\ \E t \in Significant : parseColumnIndexForeignKeyBody(t)

(***************************************************************************)
(* parseColumnReference, parseReferenceOption                              *)
(***************************************************************************)
\* index.SetReference(r), and the return to parseColumnIndexForeignKey
SetReference(t, c, s) == Return(t, c, [s EXCEPT !.index.reference = s.r])

\* one turn of the loop OUTER, which runs while i < 2
ReferenceOn(t) ==
  IF t.Type # "ON"
  THEN SetReference(t, Peek(ctx, t), st)
  ELSE Goto(t, "parseColumnReference:kind", NextTok(ctx, t), st)

parseColumnReferenceBody(t) ==
  LET c == NextTok(ctx, t)
  IN CASE pc = "parseColumnReference:table" ->
            IF IsIdent(t)
            THEN Goto(t, "parseColumnIndexColName", c,
                      [st EXCEPT !.r.tableName = t.Value, !.container = "r",
                                 !.plan = <<"parseColumnReference:MATCH">> \o @])
            ELSE Fail(t, c, "should IDENT or BACKTICK_IDENT", t)
       [] pc = "parseColumnReference:MATCH" ->
            IF t.Type = "MATCH"
            THEN Goto(t, "parseColumnReference:match", c, st)
            ELSE ReferenceOn(t)
       [] pc = "parseColumnReference:match" ->
            CASE t.Type = "FULL" ->
                   Goto(t, "parseColumnReference:ON", c, [st EXCEPT !.r.match = "Full"])
              [] t.Type = "PARTIAL" ->
                   Goto(t, "parseColumnReference:ON", c, [st EXCEPT !.r.match = "Partial"])
              [] t.Type = "SIMPLE" ->
                   Goto(t, "parseColumnReference:ON", c, [st EXCEPT !.r.match = "Simple"])
              [] OTHER -> Fail(t, c, "should FULL, PARTIAL or SIMPLE", t)
       [] pc = "parseColumnReference:ON" -> ReferenceOn(t)
       [] pc = "parseColumnReference:kind" ->
            CASE t.Type = "DELETE" ->
                   Goto(t, "parseReferenceOption", c,
                        [st EXCEPT !.set = "SetOnDelete", !.ons = Append(@, "DELETE")])
              [] t.Type = "UPDATE" ->
                   Goto(t, "parseReferenceOption", c,
                        [st EXCEPT !.set = "SetOnUpdate", !.ons = Append(@, "UPDATE")])
              [] OTHER -> Fail(t, c, "expected DELETE or UPDATE", t)

parseColumnReference ==
  /\ pc \in {"parseColumnReference:table", "parseColumnReference:MATCH",
             "parseColumnReference:match", "parseColumnReference:ON",
             "parseColumnReference:kind"}
  /\ \E t \in Significant : parseColumnReferenceBody(t)

\* a loop OUTER that went on after ON UPDATE as it does after ON DELETE
ReferenceSetContinues(t, c, option) ==
  IF st.i + 1 < 2
  THEN Goto(t, "parseColumnReference:ON", c,
            [st EXCEPT !.r.onDelete = IF st.set = "SetOnDelete" THEN option ELSE @,
                       !.r.onUpdate = IF st.set = "SetOnUpdate" THEN option ELSE @,
                       !.i = @ + 1, !.set = ""])
  ELSE SetReference(t, c,
            [st EXCEPT !.r.onDelete = IF st.set = "SetOnDelete" THEN option ELSE @,
                       !.r.onUpdate = IF st.set = "SetOnUpdate" THEN option ELSE @,
                       !.i = @ + 1])

\* set(option), then what the loop OUTER does after ON DELETE and after ON UPDATE
ReferenceSet(t, c, option) ==
  IF st.set = "SetOnUpdate"
  THEN SetReference(t, c, [st EXCEPT !.r.onUpdate = option])
  ELSE IF st.i + 1 < 2
  THEN Goto(t, "parseColumnReference:ON", c,
            [st EXCEPT !.r.onDelete = option, !.i = @ + 1, !.set = ""])
  ELSE SetReference(t, c, [st EXCEPT !.r.onDelete = option, !.i = @ + 1])

\* the errors of parseReferenceOption are wrapped by parseColumnReference
Wrapped(msg) ==
  IF st.set = "SetOnDelete" THEN "failed to parse ON DELETE: " \o msg
  ELSE "failed to parse ON UPDATE: " \o msg

parseReferenceOptionBody(t) ==
  LET c == NextTok(ctx, t)
  IN CASE pc = "parseReferenceOption" ->
            CASE t.Type = "RESTRICT" -> ReferenceSet(t, c, "Restrict")
              [] t.Type = "CASCADE" -> ReferenceSet(t, c, "Cascade")
              [] t.Type = "SET" -> Goto(t, "parseReferenceOption:NULL", c, st)
              [] t.Type = "NO" -> Goto(t, "parseReferenceOption:ACTION", c, st)
              [] OTHER -> Fail(t, c, Wrapped("expected RESTRICT, CASCADE, SET or NO"), t)
       [] pc = "parseReferenceOption:NULL" ->
            IF t.Type = "NULL" THEN ReferenceSet(t, c, "SetNull")
            ELSE Fail(t, c, Wrapped("expected NULL"), t)
       [] pc = "parseReferenceOption:ACTION" ->
            IF t.Type = "ACTION" THEN ReferenceSet(t, c, "NoAction")
            ELSE Fail(t, c, Wrapped("expected ACTION"), t)

parseReferenceOption ==
  /\ pc \in {"parseReferenceOption", "parseReferenceOption:NULL",
             "parseReferenceOption:ACTION"}
  /\ \E t \in Significant : parseReferenceOptionBody(t)

(***************************************************************************)
(* parseCreateTableOptions, and the end of the CREATE TABLE statement      *)
(***************************************************************************)
Idents == {"IDENT", "BACKTICK_IDENT"}

Quoted == {"SINGLE_QUOTE_IDENT", "DOUBLE_QUOTE_IDENT"}

\* the options that are one keyword: their key and the kinds of value they take
OptionKey(ty) == IF ty = "COLLATE" THEN "DEFAULT COLLATE" ELSE ty

OptionTypes(ty) ==
  CASE ty \in {"ENGINE", "COLLATE"} -> Idents
    [] ty \in {"AUTO_INCREMENT", "AVG_ROW_LENGTH", "CHECKSUM", "DELAY_KEY_WRITE",
               "KEY_BLOCK_SIZE", "MAX_ROWS", "MIN_ROWS", "STATS_SAMPLE_PAGES"} ->
         {"NUMBER"}
    [] ty \in {"COMMENT", "CONNECTION", "PASSWORD"} -> Quoted
    [] ty = "INSERT_METHOD" -> {"IDENT"}
    [] ty = "PACK_KEYS" -> {"NUMBER", "IDENT"}
    [] ty = "ROW_FORMAT" ->
         {"DEFAULT", "DYNAMIC", "FIXED", "COMPRESSED", "REDUNDANT", "COMPACT"}
    [] ty \in {"STATS_AUTO_RECALC", "STATS_PERSISTENT"} -> {"NUMBER", "DEFAULT"}

SimpleOptions == TblOptStart \ {"DEFAULT", "CHARACTER", "DATA", "INDEX"}

\* the call of the closure setOption(key, types)
CallSetOption(t, c, key, types) ==
  Goto(t, "setOption", c, [st EXCEPT !.key = key, !.types = types])

\* a setOption that takes a value of any kind
OptionValueOfAnyKind(t) ==
  Goto(t, "parseCreateTableOptions", NextTok(ctx, t),
       [st EXCEPT !.table.options = Append(@, NewTableOption(st.key, t.Value)),
                  !.key = "", !.types = {}])

\* the value of setOption: `t := ctx.next()` and the loop over types
OptionValue(t) ==
  IF t.Type \in st.types
  THEN Goto(t, "parseCreateTableOptions", NextTok(ctx, t),
            [st EXCEPT !.table.options = Append(@, NewTableOption(st.key, t.Value)),
                       !.key = "", !.types = {}])
  ELSE Fail(t, NextTok(ctx, t), "should " \o st.key \o " value", t)

\* a Parse that put each new statement in front of the list
PrependStmt(ss, stmt) == <<stmt>> \o ss

\* Parse's `stmts = append(stmts, stmt)`
appendToStmts(ss, stmt) == Append(ss, stmt)

\* parseCreateTableOptions has returned nil with the buffer c: parseCreateTableFields
\* calls p.eol, parseCreateTable returns the table and Parse appends it
TableEnd(t, c) ==
  LET e == eol(c, Buffered(c))
  IN IF t = NilTok THEN Panic(t, ctx)
     ELSE IF ~e.ok THEN Fail(t, e.ctx, "should EOL", Tok("RPAREN"))
     ELSE /\ pc' = "Parse"
          /\ ctx' = e.ctx
          /\ stmts' = appendToStmts(stmts, st.table)
          /\ st' = [St0 EXCEPT !.lastCreate = "stmt"]
          /\ UNCHANGED <<ret, vocab, lex>>
          /\ fuel' = Burn(t)
          /\ seen' = [(IF Fresh THEN Observe(seen, t) ELSE seen)
                        EXCEPT !.appended = @ + 1]

TableOptionsLoop(t) ==
  LET c == NextTok(ctx, t)
  IN CASE t.Type \in SimpleOptions ->
            CallSetOption(t, c, OptionKey(t.Type), OptionTypes(t.Type))
       [] t.Type = "DEFAULT" -> Goto(t, "parseCreateTableOptions:DEFAULT", c, st)
       [] t.Type = "CHARACTER" ->
            Goto(t, "parseCreateTableOptions:SET", c,
                 [st EXCEPT !.key = "DEFAULT CHARACTER SET", !.types = Idents])
       [] t.Type = "DATA" ->
            Goto(t, "parseCreateTableOptions:DIRECTORY", c,
                 [st EXCEPT !.key = "DATA DIRECTORY", !.types = Quoted])
       [] t.Type = "INDEX" ->
            Goto(t, "parseCreateTableOptions:DIRECTORY", c,
                 [st EXCEPT !.key = "INDEX DIRECTORY", !.types = Quoted])
       [] t.Type = "TABLESPACE" -> Fail(t, c, "not support TABLESPACE", t)
       [] t.Type = "UNION" -> Fail(t, c, "not support UNION", t)
       [] t.Type = "EOF" -> TableEnd(t, c)
       [] t.Type = "SEMICOLON" -> TableEnd(t, Rewind(c))
       [] OTHER -> Fail(t, c, "unexpected table options", t)

parseCreateTableOptionsBody(t) ==
  LET c == NextTok(ctx, t)
  IN CASE pc = "parseCreateTableOptions" -> TableOptionsLoop(t)
       [] pc = "parseCreateTableOptions:DEFAULT" ->
            CASE t.Type = "CHARACTER" ->
                   Goto(t, "parseCreateTableOptions:SET", c,
                        [st EXCEPT !.key = "DEFAULT CHARACTER SET", !.types = Idents])
              [] t.Type = "COLLATE" -> CallSetOption(t, c, "DEFAULT COLLATE", Idents)
              [] OTHER -> Fail(t, c, "expected CHARACTER or COLLATE", t)
       [] pc = "parseCreateTableOptions:SET" ->
            IF t.Type = "SET" THEN Goto(t, "setOption", c, st)
            ELSE Fail(t, c, "expected SET", t)
       [] pc = "parseCreateTableOptions:DIRECTORY" ->
            IF t.Type = "DIRECTORY" THEN Goto(t, "setOption", c, st)
            ELSE Fail(t, c, "should DIRECTORY", t)
       [] pc = "setOption" ->
            IF t.Type = "EQUAL"
            THEN Goto(t, "setOption:value", c, st)
            ELSE OptionValue(t)
       [] pc = "setOption:value" -> OptionValue(t)

parseCreateTableOptions ==
  /\ pc \in {"parseCreateTableOptions", "parseCreateTableOptions:DEFAULT",
             "parseCreateTableOptions:SET", "parseCreateTableOptions:DIRECTORY",
             "setOption", "setOption:value"}
  /\ \E t \in Significant : parseCreateTableOptionsBody(t)

(***************************************************************************)
(* parseIdents: the tokens that must follow, one per step                  *)
(***************************************************************************)
parseIdentsBody(t) ==
  LET c == NextTok(ctx, t)
      strs == Append(st.strs, t.Value)
  IN IF t.Type # Head(st.idents)
     THEN IF st.after = "parseCreateTable"
          THEN Fail(t, c, "should NOT EXISTS", st.iftok)
          ELSE Fail(t, c, "expected idents", t)
     ELSE IF Len(st.idents) > 1
     THEN Goto(t, "parseIdents", c, [st EXCEPT !.idents = Tail(@), !.strs = strs])
     ELSE CASE st.after = "parseCreateDatabase" ->
                 Goto(t, "parseCreateDatabase:name", c,
                      [st EXCEPT !.idents = <<>>, !.strs = <<>>, !.after = "",
                                 !.iftok = NilTok, !.notexists = TRUE])
            [] st.after = "parseCreateTable" ->
                 Goto(t, "parseCreateTable:LPAREN", c,
                      [st EXCEPT !.idents = <<>>, !.strs = <<>>, !.after = "",
                                 !.iftok = NilTok, !.table.ifNotExists = TRUE])
            [] st.after = "parseColumnOption" ->
                 Goto(t, "parseColumnOption", c,
                      [st EXCEPT !.idents = <<>>, !.strs = <<>>, !.after = "",
                                 !.col.length = NewLengthDecimal(strs[1], strs[3])])

parseIdents ==
  /\ pc \in {"parseIdents"}
  /\ \E t \in Significant : parseIdentsBody(t)

(***************************************************************************)
(* The specification                                                       *)
(***************************************************************************)
\* The lexer's side of the channel and the cancellation of the parse's context:
\* the tokens published and not yet received, whether the channel is closed,
\* whether the context is done and how many tokens were published; and, of the
\* calls made on the buffer, the last one, the token it returned and the tokens
\* that the last calls of next() returned.  Parse, which receives each token when
\* it asks for it and cancels the context only as it returns, leaves it as it is.
Lex0 ==
  [queue |-> <<>>, closed |-> FALSE, done |-> FALSE, sent |-> 0,
   op |-> "", got |-> NilTok, hist |-> <<>>]

Fuel0 ==
  [stmts |-> MaxStmts, defs |-> DefBudget, opts |-> MaxColOpts, idxcols |-> MaxIdxCols,
   tblopts |-> MaxTblOpts, spaces |-> MaxSpaces]

Init ==
  /\ vocab \in Vocabularies
  /\ fuel = Fuel0
  /\ ctx = newParseCtx
  /\ seen = Seen0
  /\ pc = "Parse"
  /\ stmts = <<>>
  /\ st = St0
  /\ ret = NoRet
  /\ lex = Lex0

Next ==
  \/ skipWhiteSpaces
  \/ Parse
  \/ S1_eol
  \/ S1_test
  \/ parseCreate
  \/ parseCreateDatabase
  \/ parseCreateTable
  \/ parseCreateTableFields
  \/ parseConstraint
  \/ parseTableColumnSpec
  \/ parseColumnOption
  \/ parseColumnIndexPrimaryKey
  \/ parseColumnIndexUniqueKey
  \/ parseColumnIndexName
  \/ parseColumnIndexType
  \/ parseColumnIndexColName
  \/ parseColumnIndexForeignKey
  \/ parseColumnReference
  \/ parseReferenceOption
  \/ parseCreateTableOptions
  \/ parseIdents

Spec == Init /\ [][Next]_vars

\* Parse runs in one goroutine that nothing suspends: it takes its next step
FairSpec == Spec /\ WF_vars(Next)

(***************************************************************************)
(* The buffer with its lexer: parseCtx called by a consumer, in any order  *)
(* of peek(), next() and rewind(), while the lexer publishes the tokens of *)
(* an input on the channel and while the context may be cancelled.         *)
(***************************************************************************)
\* the tokens the channel holds at most, and the tokens of the longest input
QueueCap == 1
MaxTokens == 3

\* the lexer publishes a token of the input
Lex_emit ==
  /\ pc = "consumer"
  /\ ~lex.closed /\ ~lex.done
  /\ Len(lex.queue) < QueueCap /\ lex.sent < MaxTokens
  /\ \E t \in vocab :
       lex' = [lex EXCEPT !.queue = Append(@, t), !.sent = @ + 1, !.op = "emit"]
  /\ UNCHANGED <<vocab, fuel, ctx, seen, pc, stmts, st, ret>>

\* the lexer is at the end of the input: it publishes EOF and closes the channel
Lex_eof ==
  /\ pc = "consumer"
  /\ ~lex.closed /\ ~lex.done
  /\ Len(lex.queue) < QueueCap
  /\ lex' = [lex EXCEPT !.queue = Append(@, eofToken), !.closed = TRUE, !.op = "eof"]
  /\ UNCHANGED <<vocab, fuel, ctx, seen, pc, stmts, st, ret>>

\* the lexer sees that the context is done: it publishes nothing more
Lex_stop ==
  /\ pc = "consumer"
  /\ ~lex.closed /\ lex.done
  /\ lex' = [lex EXCEPT !.closed = TRUE, !.op = "stop"]
  /\ UNCHANGED <<vocab, fuel, ctx, seen, pc, stmts, st, ret>>

\* the cancellation signal fires
cancel ==
  /\ pc = "consumer"
  /\ ~lex.done
  /\ lex' = [lex EXCEPT !.done = TRUE, !.op = "cancel"]
  /\ UNCHANGED <<vocab, fuel, ctx, seen, pc, stmts, st, ret>>

\* peek() took `case <-pctx.Context.Done()`, or found the channel closed
PeekEof(c) == Peek([c EXCEPT !.lexsrc = "closed"], eofToken)

\* What peek() may do in the buffer c, each outcome with the buffer, the channel and
\* the token returned.  With the cursor on a slot it returns the slot.  Otherwise
\* its select takes one of the cases that can proceed, whichever: Done when the
\* context is done, the receive when the channel holds a token or is closed; when
\* none can, peek() blocks and has no outcome yet.
Select(c) ==
  IF c.peekCount >= 0
  THEN {[ctx |-> c, queue |-> lex.queue, got |-> c.peekTokens[c.peekCount + 1]]}
  ELSE (IF lex.done
        THEN {[ctx |-> [PeekEof(c) EXCEPT !.lexsrc = c.lexsrc], queue |-> lex.queue,
               got |-> eofToken]}
        ELSE {})
       \cup (IF lex.queue # <<>>
             THEN {[ctx |-> Peek([c EXCEPT !.lexsrc = "open"], Head(lex.queue)),
                    queue |-> Tail(lex.queue), got |-> Head(lex.queue)]}
             ELSE {})
       \cup (IF lex.queue = <<>> /\ lex.closed
             THEN {[ctx |-> PeekEof(c), queue |-> lex.queue, got |-> eofToken]}
             ELSE {})

\* the last tokens returned by next(), three at most
Last3(h) == IF Len(h) > 3 THEN SubSeq(h, Len(h) - 2, Len(h)) ELSE h

peek ==
  /\ pc = "consumer"
  /\ \E o \in Select(ctx) :
       /\ ctx' = o.ctx
       /\ lex' = [lex EXCEPT !.queue = o.queue, !.got = o.got, !.op = "peek"]
  /\ UNCHANGED <<vocab, fuel, seen, pc, stmts, st, ret>>

next ==
  /\ pc = "consumer"
  /\ \E o \in Select(ctx) :
       /\ ctx' = Advance(o.ctx)
       /\ lex' = [lex EXCEPT !.queue = o.queue, !.got = o.got, !.op = "next",
                             !.hist = IF o.ctx.peekCount >= 0 /\ o.got # NilTok
                                      THEN Last3(Append(@, o.got))
                                      ELSE <<>>]
  /\ UNCHANGED <<vocab, fuel, seen, pc, stmts, st, ret>>

rewind ==
  /\ pc = "consumer"
  /\ ctx' = Rewind(ctx)
  /\ lex' = [lex EXCEPT !.op = "rewind", !.hist = <<>>]
  /\ UNCHANGED <<vocab, fuel, seen, pc, stmts, st, ret>>

BufferInit ==
  /\ vocab = {Ident(n) : n \in Names}
  /\ fuel = NoFuel
  /\ ctx = newParseCtx
  /\ seen = Seen0
  /\ pc = "consumer"
  /\ stmts = <<>>
  /\ st = St0
  /\ ret = NoRet
  /\ lex = Lex0

BufferNext ==
  \/ Lex_emit
  \/ Lex_eof
  \/ Lex_stop
  \/ cancel
  \/ peek
  \/ next
  \/ rewind

BufferSpec == BufferInit /\ [][BufferNext]_vars

(***************************************************************************)
(* Properties                                                              *)
(***************************************************************************)
\* the token that the step being taken hands to the parser
Handled ==
  IF ctx.peekCount >= 0 THEN ctx.peekTokens[ctx.peekCount + 1]
  ELSE IF ctx.lexsrc = "closed" THEN eofToken
  ELSE ctx'.peekTokens[1]

\* a step of the grammar, which is not the skipping of whitespace
GrammarStep == pc \notin {"done", "panic", "S1:test"} /\ ~IsSpace(Handled)

Succeeded == ret.returned /\ ret.err = NoErr

Failed == ret.returned /\ ret.err # NoErr

\* C1: once Parse has met a DROP, SET or USE token, it gets past the statement's
\* terminator and back to its loop over the statements (so that Parse returns)
C1_SkippedStatementEnds == (pc = "S1") ~> (pc = "Parse")

\* C2: Parse never panics, and what it returns is a statement list without an
\* error or an error without a statement list
C2_ReturnsListOrError ==
  /\ pc # "panic"
  /\ ret.returned => (ret.err = NoErr \/ ret.stmts = <<>>)

\* C3: an error is returned with an empty statement list, whatever was appended
\* before it, and Parse has stopped
C3_ErrorReturnsNoStatements ==
  ret.err # NoErr => (ret.returned /\ ret.stmts = <<>> /\ pc = "done")

C3_ErrorAfterAppendedTable == Failed /\ seen.appended >= 1

\* C4: when parseCreateDatabase has read the name of the database, Parse goes on
\* with its loop, appends nothing and returns no error; and a successful Parse of
\* an input whose statements are all CREATE DATABASE returns no statement
C4_DatabaseIsIgnorable ==
  /\ [][(pc = "parseCreateDatabase:eol" /\ GrammarStep)
          => (pc' = "Parse" /\ stmts' = stmts /\ ret' = NoRet)]_vars
  /\ []((Succeeded /\ seen.tables = <<>>) => ret.stmts = <<>>)

C4_OnlyDatabasesSucceed == Succeeded /\ seen.dbs = 2 /\ ret.stmts = <<>>

\* C5: on success the statements returned are the tables of the CREATE TABLE
\* statements of the input, one each, in the order of the input
C5_TablesInSourceOrder ==
  Succeeded =>
    /\ Len(ret.stmts) = Len(seen.tables)
    /\ \A i \in 1..Len(ret.stmts) :
         ret.stmts[i].kind = "table" /\ ret.stmts[i].name = seen.tables[i]

C5_TwoDistinctTables ==
  Succeeded /\ Len(ret.stmts) = 2 /\ ret.stmts[1].name # ret.stmts[2].name

\* C6: an option keyword whose rank is lower than the rank of the option accepted
\* last for the column is refused with the "cant apply" error that names it; one
\* whose rank is not lower, and that the column's flags permit, is accepted and its
\* rank becomes the current one, so that the ranks accepted never decrease
C6_RanksNeverDecrease ==
  /\ [][(pc = "parseColumnOption" /\ GrammarStep /\ Handled.Type \in KeywordOptions)
          => IF OptionRank(Handled.Type) < st.pos
             THEN /\ ret'.returned
                  /\ ret'.err = [msg |-> CantApply(Handled.Type), tok |-> Handled]
             ELSE BitOr(st.f, OptionRank(Handled.Type)) = st.f
                    => (~ret'.returned /\ st'.pos = OptionRank(Handled.Type))]_vars
  /\ [][(st.col # Nil /\ st'.col # Nil) => st'.pos >= st.pos]_vars

C6_NotNullAfterDefaultRefused == Failed /\ ret.err.msg = "cant apply NOT NULL"

\* C7 (as stated): `(` right after a type of the BLOB family or of the TEXT family
\* is refused with the "cant apply" error of sizes
C7_BlobAndTextRefuseSize ==
  [][(pc = "parseColumnOption" /\ GrammarStep /\ Handled.Type = "LPAREN" /\ st.pos = 0
        /\ st.col.type \in BlobTypes \cup TextTypes)
       => (ret'.returned /\ ret'.err.msg = CantApplySize)]_vars

\* C7 (amended): `(` right after a type of the BLOB family is refused with the
\* "cant apply" error of sizes, and no column of the BLOB family has a length; right
\* after a type of the TEXT family it is accepted, and a size is read
C7_BlobRefusesSizeTextAccepts ==
  /\ [][(pc = "parseColumnOption" /\ GrammarStep /\ Handled.Type = "LPAREN" /\ st.pos = 0)
          => IF st.col.type \in BlobTypes
             THEN ret'.returned /\ ret'.err = [msg |-> CantApplySize, tok |-> Handled]
             ELSE st.col.type \in TextTypes
                    => (~ret'.returned /\ pc' = "parseColumnOption:size:NUMBER")]_vars
  /\ []((st.col # Nil /\ st.col.type \in BlobTypes) => st.col.length = Nil)

C7_TextColumnHasLength ==
  st.col # Nil /\ st.col.type \in TextTypes /\ st.col.length # Nil

\* the positions of the parser between CREATE TABLE and the `)` of the list
TableListPcs ==
  {"parseCreateTable:TEMPORARY", "parseCreateTable:name", "parseCreateTable:IF",
   "parseCreateTable:LPAREN", "parseCreateTableFields", "CONSTRAINT:symbol",
   "CONSTRAINT:kind", "parseTableColumnSpec", "parseColumnOption",
   "parseColumnOption:size:NUMBER", "parseColumnOption:size:RPAREN",
   "parseColumnOption:decimal:M", "parseColumnOption:decimal:sep",
   "parseColumnOption:decimal:D", "parseColumnOption:decimal:RPAREN",
   "parseColumnOption:NOT", "parseColumnOption:DEFAULT", "parseColumnOption:UNIQUE",
   "parseColumnOption:PRIMARY", "parseColumnOption:COMMENT",
   "parseColumnIndexPrimaryKey", "parseColumnIndexUniqueKey", "parseColumnIndexName",
   "parseColumnIndexType", "parseColumnIndexTypeUsing", "parseColumnIndexColName",
   "parseColumnIndexColName:col", "parseColumnIndexColName:sep",
   "parseColumnIndexForeignKey", "parseColumnIndexForeignKey:REFERENCES",
   "parseColumnReference:table", "parseColumnReference:MATCH",
   "parseColumnReference:match", "parseColumnReference:ON",
   "parseColumnReference:kind", "parseReferenceOption", "parseReferenceOption:NULL",
   "parseReferenceOption:ACTION"}

InTableList ==
  \/ pc \in TableListPcs
  \/ pc = "parseIdents" /\ st.after \in {"parseCreateTable", "parseColumnOption"}

\* C8: when the input has ended while the parser is between CREATE TABLE and the
\* `)` of the list of definitions, Parse comes to return an error
C8_TruncatedTableFails == (ctx.lexsrc = "closed" /\ InTableList) ~> Failed

C8_EndOfInputInReference ==
  Failed /\ ret.err = [msg |-> "expected DELETE or UPDATE", tok |-> eofToken]

\* C9: when the name of a CREATE DATABASE statement of the input is followed by a
\* significant token that is no terminator, what Parse returns is an error
C9_DatabaseNeedsTerminator == (ret.returned /\ seen.unterminated) => ret.err # NoErr

HasReference(x) == x # Nil /\ x.kind = "index" /\ x.reference # Nil

\* C10: the ON clauses read within one REFERENCES clause never go on after ON
\* UPDATE; after ON DELETE then ON UPDATE the reference built has both set; and an
\* ON that follows a reference whose ON UPDATE is set makes Parse return an error
C10_DeleteBeforeUpdate ==
  /\ [](\A i \in 1..(Len(st.ons) - 1) : st.ons[i] # "UPDATE")
  /\ []((HasReference(st.targetStmt) /\ st.ons = <<"DELETE", "UPDATE">>)
          => /\ st.targetStmt.reference.onDelete # "None"
             /\ st.targetStmt.reference.onUpdate # "None")
  /\ [][(pc = "parseCreateTableFields" /\ GrammarStep /\ HasReference(st.targetStmt)
           /\ st.targetStmt.reference.onUpdate # "None" /\ Handled.Type = "ON")
          => (ret'.returned /\ ret'.err # NoErr)]_vars

C10_BothActionsSet ==
  /\ HasReference(st.targetStmt)
  /\ st.targetStmt.reference.onDelete = "Cascade"
  /\ st.targetStmt.reference.onUpdate = "SetNull"

\* C11: whenever the list parser of CREATE TABLE is handed a CHECK token, at the
\* start of the list or after a definition, pending or not, Parse returns the fatal
\* error "not support CHECK", without reading what follows
C11_CheckIsFatal ==
  [][(GrammarStep /\ pc = "parseCreateTableFields" /\ Handled.Type = "CHECK")
       => (Failed' /\ ret'.err.msg = "not support CHECK" /\ pc' = "done")]_vars

C11_CheckRefused ==
  Failed /\ ret.err.msg = "not support CHECK" /\ ret.err.tok = Tok("CHECK")
    /\ ret.stmts = <<>>

\* the parser is in the options that follow the `)` of the list
InTableOptions ==
  pc \in {"parseCreateTableOptions", "parseCreateTableOptions:DEFAULT",
          "parseCreateTableOptions:SET", "parseCreateTableOptions:DIRECTORY",
          "setOption", "setOption:value"}

\* the step reads the value of an option: the token after the keyword that is
\* not `=`, or the token after the `=`
ReadsOptionValue ==
  GrammarStep /\ (pc = "setOption:value" \/ (pc = "setOption" /\ Handled.Type # "EQUAL"))

\* the kinds of value each option of the inputs explored takes
ExpectedKinds(key) ==
  CASE key \in {"ENGINE", "DEFAULT CHARACTER SET", "DEFAULT COLLATE"} ->
         {"IDENT", "BACKTICK_IDENT"}
    [] OTHER -> {}

\* C12: after the `)` of the list, reading the value of an option, with or without
\* `=`, appends the pair (key, value) at the end of the table's options when the
\* kind of the value is one the keyword expects, and otherwise makes Parse return
\* a fatal error with no statement; no other step of the options changes them
C12_OptionAppendsOnePair ==
  [][(GrammarStep /\ InTableOptions)
       => IF ReadsOptionValue
          THEN IF Handled.Type \in ExpectedKinds(st.key)
               THEN /\ ~ret'.returned
                    /\ st'.table.options =
                         Append(st.table.options, [key |-> st.key, value |-> Handled.Value])
               ELSE Failed' /\ ret'.stmts = <<>>
          ELSE \/ pc' \in {"Parse", "done", "panic"}
               \/ st'.table.options = st.table.options]_vars

C12_TwoOptionsInOrder ==
  /\ pc = "parseCreateTableOptions"
  /\ st.table.options = <<[key |-> "ENGINE", value |-> "a"],
                          [key |-> "DEFAULT CHARACTER SET", value |-> "a"]>>

\* the step is one of the parsing of a table that goes on after it
InTableStep == st.table # Nil /\ st'.table # Nil

\* the step in which the list parser meets the `,` or `)` that ends a definition
MeetsTerminator ==
  GrammarStep /\ pc = "parseCreateTableFields" /\ Handled.Type \in {"COMMA", "RPAREN"}

\* C13: while a table is parsed, the step that meets the `,` or `)` ending the
\* pending definition appends that definition, once, at the end of the table's
\* columns if it is a column and of its indexes if it is an index, and leaves no
\* definition pending; every other step leaves both sequences as they are and
\* keeps the pending definition pending, so that a successful parse holds each
\* definition of the list once, in the order of declaration
C13_AppendedOnceAtTerminator ==
  [][InTableStep =>
       IF MeetsTerminator
       THEN /\ st.targetStmt # Nil
            /\ st'.targetStmt = Nil
            /\ IF st.targetStmt.kind = "column"
               THEN /\ st'.table.columns = Append(st.table.columns, st.targetStmt)
                    /\ st'.table.indexes = st.table.indexes
               ELSE /\ st'.table.indexes = Append(st.table.indexes, st.targetStmt)
                    /\ st'.table.columns = st.table.columns
       ELSE /\ st'.table.columns = st.table.columns
            /\ st'.table.indexes = st.table.indexes
            /\ st.targetStmt # Nil => st'.targetStmt = st.targetStmt]_vars

C13_TwoColumnsInOrder ==
  /\ Succeeded
  /\ Len(ret.stmts) = 1
  /\ Len(ret.stmts[1].columns) = 2
  /\ ret.stmts[1].columns[1].name = "a"
  /\ ret.stmts[1].columns[2].name = "b"

\* the list parser is handed a `,` while no definition is pending
CommaWithoutPending ==
  GrammarStep /\ pc = "parseCreateTableFields" /\ Handled.Type = "COMMA"
    /\ st.targetStmt = Nil

\* the list parser is handed the first token of a definition while one is pending
StartWhilePending ==
  GrammarStep /\ pc = "parseCreateTableFields" /\ Handled.Type \in DefStart
    /\ st.targetStmt # Nil

\* C14: in the list, a `,` met while no definition is pending and the start of a
\* definition met while the previous one is pending each make Parse return a
\* fatal error, each with its own message, and no statement: the table and what
\* was appended to it are given up
C14_OnePendingDefinition ==
  [][/\ CommaWithoutPending =>
          (Failed' /\ ret'.err.msg = "unexpected COMMA" /\ ret'.stmts = <<>>)
     /\ StartWhilePending =>
          (/\ Failed'
           /\ ret'.err.msg = "previous column or index definition not terminated"
           /\ ret'.stmts = <<>>)]_vars

C14_SecondDefinitionRefused ==
  /\ Failed
  /\ ret.err.msg = "previous column or index definition not terminated"
  /\ ret.err.tok \in {Ident("a"), Ident("b"), Tok("KEY")}

\* the option scan of a column is handed a `,` or `)` where an option is complete:
\* at the head of its loop, after a bare UNIQUE or after a bare PRIMARY
MeetsColumnEnd ==
  /\ GrammarStep
  /\ pc \in {"parseColumnOption", "parseColumnOption:UNIQUE", "parseColumnOption:PRIMARY"}
  /\ Handled.Type \in {"COMMA", "RPAREN"}

\* C15: the `,` or `)` that the option scan of a column meets after a complete
\* option, a bare UNIQUE included, is not consumed: after the step it is the token
\* the buffer hands out next, and Parse has not returned an error
C15_TerminatorLeftToList ==
  [][MeetsColumnEnd =>
       /\ ~ret'.returned
       /\ ctx'.peekCount >= 0
       /\ ctx'.peekTokens[ctx'.peekCount + 1] = Handled]_vars

\* the option scan has accepted KEY, and the column is still being parsed
AcceptsKey ==
  GrammarStep /\ pc = "parseColumnOption" /\ Handled.Type = "KEY" /\ st'.col # Nil

\* the option scan has accepted UNIQUE, or PRIMARY, and reads what follows it
AfterUnique == GrammarStep /\ pc = "parseColumnOption:UNIQUE" /\ st'.col # Nil

AfterPrimary == GrammarStep /\ pc = "parseColumnOption:PRIMARY" /\ st'.col # Nil

\* C16: an accepted KEY sets the column's is_key, an accepted UNIQUE, followed by
\* KEY or not, sets its is_unique, and an accepted PRIMARY, followed by KEY or
\* not, sets its is_primary
C16_KeyOptionsSetFlags ==
  [][/\ AcceptsKey => st'.col.key
     /\ AfterUnique => st'.col.unique
     /\ AfterPrimary => st'.col.primary]_vars

\* the number of ON clauses of the kind k read within the REFERENCES clause
Actions(k) == Cardinality({i \in DOMAIN st.ons : st.ons[i] = k})

\* C17: a REFERENCES clause that parseColumnReference has accepted, so that its
\* reference is set on the pending index, holds at most one ON DELETE and at most
\* one ON UPDATE
C17_AtMostOneActionOfAKind ==
  HasReference(st.targetStmt) => (Actions("DELETE") <= 1 /\ Actions("UPDATE") <= 1)

\* the slot under the cursor of the buffer, when the cursor is on a slot
Cached == ctx.peekTokens[ctx.peekCount + 1]

\* C18: rewind() is only ever called directly after an advance() that moved the
\* cursor past a cached token, so not after the token of an exhausted source and
\* not twice in a row; the cursor is on no slot or on a slot that holds a token,
\* the last one taken from the source, which is what peek() returns
C18_RewindOnlyAfterConsuming ==
  /\ ~ctx.strayRewind
  /\ ctx.peekCount \in -1..2
  /\ ctx.peekCount >= 0 => (Cached # NilTok /\ Cached = ctx.fetched)

C18_RewoundToEndOfList ==
  /\ pc = "parseCreateTableFields"
  /\ st.targetStmt # Nil /\ st.targetStmt.kind = "column"
  /\ ctx.peekCount = 0 /\ Cached = Tok("RPAREN") /\ ~ctx.consumed

\* the buffers c and d have the same cursor, the same slots and the same source
SameBuffer(c, d) ==
  c.peekCount = d.peekCount /\ c.peekTokens = d.peekTokens /\ c.lexsrc = d.lexsrc

\* what the channel may deliver, were it read
FromSource == vocab \cup {eofToken}

\* three of the tokens the source may hold next: its end, the start of a
\* statement and the end of a list
NextInSource == {u \in FromSource : u.Type \in {"EOF", "CREATE", "RPAREN"}}

\* next() then rewind() in the buffer c, next() having returned t
RoundTrip(c, t) == Rewind(NextTok(c, t))

\* C19: in every buffer a parse reaches, when next() returns a token t that came
\* from the source and rewind() follows, peek() returns t and reads nothing from
\* the source, whatever the source holds next, and next() returns t and leaves the
\* buffer as it was after the first next(); and every token a step hands to the
\* parser is the last one taken from the source, so that tokens are delivered in
\* the order of the source
C19_NextRewindRoundTrip ==
  /\ [](\A t \in Delivered(ctx) :
         (ctx.peekCount >= 0 \/ ctx.lexsrc = "open")
           => LET c == RoundTrip(ctx, t)
                  d == NextTok(ctx, t)
              IN /\ Delivered(c) = {t}
                 /\ \A u \in NextInSource :
                      Peek(c, u) = c /\ SameBuffer(NextTok(c, u), d))
  /\ [][(Reading /\ pc' # "panic") => Handled = ctx'.fetched]_vars

C19_CommaDeliveredAgain ==
  /\ pc = "parseCreateTableFields"
  /\ st.targetStmt # Nil /\ st.targetStmt.kind = "column"
  /\ ctx.peekCount = 0 /\ Cached = Tok("COMMA") /\ ctx.fetched = Tok("COMMA")

\* the source is exhausted: its channel is closed and no cached token is left
Exhausted == ctx.lexsrc = "closed" /\ ctx.peekCount < 0

\* C20: once the source is exhausted, peek() and next() return the end-of-input
\* token and leave the cursor and the slots of the buffer as they are, however
\* often they are called; every step the parser then takes is handed that token
\* and leaves the buffer exhausted
C20_ExhaustedSourceStaysAtEof ==
  /\ [](Exhausted =>
         /\ Delivered(ctx) = {eofToken}
         /\ \A u \in FromSource :
              /\ SameBuffer(Peek(ctx, u), ctx)
              /\ SameBuffer(NextTok(ctx, u), ctx)
              /\ Delivered(NextTok(Peek(ctx, u), u)) = {eofToken}
              /\ SameBuffer(NextTok(NextTok(ctx, u), u), ctx))
  /\ [][Exhausted => (SameBuffer(ctx', ctx) /\ (Reading => Handled = eofToken))]_vars

C20_EndOfInputReadAgain ==
  Exhausted /\ pc = "Parse" /\ Len(stmts) = 1 /\ ctx.fetched = eofToken

\* the step is a call of peek() or next() made with no cached token to return,
\* after the cancellation signal has fired
CallAfterCancel == lex.done /\ ctx.peekCount < 0 /\ lex'.op \in {"peek", "next"}

\* C21: once the cancellation signal has fired, a call of peek() or next() that
\* has no cached token to return gives the end-of-input token and takes no token
\* from the channel, whatever the lexer has published
C21_CancelledReturnsEof ==
  [][CallAfterCancel => (lex'.got = eofToken /\ lex'.queue = lex.queue)]_vars

\* the step fails on the token that should be the `(` after the name of a table
MissesLparen ==
  /\ GrammarStep
  /\ pc \in {"parseCreateTable:IF", "parseCreateTable:LPAREN"}
  /\ Failed'

\* the step fails on the token that should be the NOT or the EXISTS that follow IF
MissesNotExists == GrammarStep /\ pc = "parseIdents" /\ st.idents # <<>> /\ Failed'

\* C22: the error of a table name not followed by `(` names the opening
\* parenthesis as expected and carries the token met, and the error of a
\* malformed IF NOT EXISTS carries the token that is not the NOT or the EXISTS
C22_ErrorNamesExpectedAndToken ==
  [][/\ MissesLparen =>
          (ret'.err.msg = "expected LPAREN" /\ ret'.err.tok = Handled)
     /\ MissesNotExists => ret'.err.tok = Handled]_vars

\* the tables built so far: those of the statement list, kept by Parse or
\* returned by it, and the one being parsed
Tables ==
  LET ss == stmts \o ret.stmts
  IN {ss[i] : i \in {j \in DOMAIN ss : ss[j].kind = "table"}}
     \cup (IF st.table.kind = "table" THEN {st.table} ELSE {})

\* the indexes appended to the tables built so far
Indexes == UNION {{tb.indexes[i] : i \in DOMAIN tb.indexes} : tb \in Tables}

HasColumns(x) ==
  /\ Len(x.columns) >= 1
  /\ x.reference.kind = "reference" => Len(x.reference.columns) >= 1

\* the step meets the `)` of a column list in which no name was read
ClosesEmptyList ==
  /\ GrammarStep
  /\ pc = "parseColumnIndexColName:col"
  /\ st.cols = <<>>
  /\ Handled.Type = "RPAREN"

\* C23: every index appended to a table has at least one column name, and so
\* has the reference of a foreign key; a column list closed before any name is
\* a fatal error
C23_IndexesHaveColumns ==
  [][/\ ClosesEmptyList => Failed'
     /\ \A x \in Indexes' : HasColumns(x)]_vars

\* a parse has succeeded with a foreign key that has columns and a reference
\* that has columns
C23_ForeignKeyWithReference ==
  /\ Succeeded
  /\ \E x \in Indexes : x.indexKind = "ForeignKey" /\ x.reference.kind = "reference"
                          /\ HasColumns(x)

\* the buffer after k calls of rewind()
RECURSIVE Rewinds(_, _)
Rewinds(c, k) == IF k = 0 THEN c ELSE Rewinds(Rewind(c), k - 1)

\* what k calls of next() return from the slots of the buffer c, with the nil
\* token in the place of a token that next() would have to fetch
RECURSIVE Replayed(_, _)
Replayed(c, k) ==
  IF k = 0 THEN <<>>
  ELSE <<IF c.peekCount >= 0 THEN c.peekTokens[c.peekCount + 1] ELSE NilTok>>
       \o Replayed(Advance(c), k - 1)

\* the k tokens that next() returned last
LastConsumed(k) == SubSeq(lex.hist, Len(lex.hist) - k + 1, Len(lex.hist))

\* C24: when next() has just consumed a token and rewind() was never called
\* without a token consumed before it, then for k = 1, 2 or 3 up to the number
\* of tokens that next() returned in a row, k calls of rewind() followed by k
\* calls of next() return those k tokens in their order, all from the buffer
C24_HistoryOfThree ==
  (ctx.consumed /\ ~ctx.strayRewind) =>
    \A k \in 1..Len(lex.hist) : Replayed(Rewinds(ctx, k), k) = LastConsumed(k)

====
